---- MODULE Spec2Model ----
(***************************************************************************)
(* A model of streamlit_app.py: the AR(1) generator                        *)
(* generate_markov_chain, the moving-average filter moving_average, and    *)
(* the Streamlit script that runs both (and the statistics battery) for    *)
(* the eight coefficients of a_values each time a widget changes.          *)
(*                                                                         *)
(* Numbers.  The program computes in float64.  The model computes the      *)
(* same expressions exactly, in the prime field GF(P): a decimal literal   *)
(* k/10 is the field element k * 10^-1 and 1/w is the inverse of w.  The   *)
(* map from the rationals the program can form (denominators 10^k and w,   *)
(* all invertible below P) to GF(P) is a ring homomorphism, so every       *)
(* equation of exact arithmetic carries over; rounding is not modelled.    *)
(*                                                                         *)
(* Sequences are 1-based here and 0-based in the program: Python's s[i]    *)
(* is s[i+1] below.                                                        *)
(*                                                                         *)
(* Line 70 of the source opens st.header( and never closes it, so the file *)
(* as it stands does not compile.  The model reads line 70 as the header   *)
(* call it was meant to be (a display call with no effect on the state).   *)
(***************************************************************************)
EXTENDS Integers, Sequences, FiniteSets, TLC

VARIABLES
    rng,               \* numpy's process-wide RandomState
    num_points,        \* slider, line 29
    window_size,       \* slider, line 30
    num_lags,          \* slider, line 31
    random_seed,       \* number input, line 32
    pacf_checks,       \* whether the installed statsmodels bounds pacf's nlags
    series_dict,       \* line 37
    dfs,               \* lines 40-46
    analysis_results,  \* lines 49-63
    results,           \* the script's global `results` (lines 51, 82)
    smoothed_series,   \* the script's global `smoothed_series` (line 68)
    plots,             \* the lines drawn by ax.plot (lines 73-74), per figure
    error,             \* the exception that ended the last script run
    call               \* the last direct call of a kernel function

vars == <<rng, num_points, window_size, num_lags, random_seed, pacf_checks,
          series_dict, dfs, analysis_results, results, smoothed_series,
          plots, error, call>>

appVars == <<num_points, window_size, num_lags, random_seed, pacf_checks,
             series_dict, dfs, analysis_results, results, smoothed_series,
             plots, error>>

-----------------------------------------------------------------------------
(* Arithmetic *)

P == 46337

FromInt(k) == ((k % P) + P) % P

Add(x, y) == (x + y) % P

Sub(x, y) == ((x - y) + P) % P

Mul(x, y) == (x * y) % P

RECURSIVE Pow(_, _)
Pow(x, e) ==
    IF e = 0 THEN 1
    ELSE LET h == Pow(x, e \div 2)
         IN  IF e % 2 = 0 THEN Mul(h, h) ELSE Mul(Mul(h, h), x)

Div(x, y) == Mul(x, Pow(y, P - 2))

-----------------------------------------------------------------------------
(* numpy.random: the global stream *)

RngMod == 16

RngStates == 0 .. (RngMod - 1)

\* np.random.seed(s): the state is a function of s alone.
SeedState(s) == s % RngMod

\* The state after one draw.
RngNext(r) == (5 * r + 3) % RngMod

\* The value np.random.randn() returns in state r.
Randn(r) == FromInt(r - 8)

\* np.random.seed rejects a seed outside 0 .. 2^32 - 1 (the upper end is beyond
\* the seeds drawn here).
SeedOk(s) == s >= 0

\* An optional seed: None, or Some(s) for the integer s.
None == << >>

Some(s) == <<s>>

NoError == "none"

\* An exception that ends the script, and the line that raised it.
NoErr == [kind |-> NoError, line |-> 0]

Err(kind, line) == [kind |-> kind, line |-> line]

-----------------------------------------------------------------------------
(* generate_markov_chain *)

\* np.zeros(n), as a sequence
Zeros(n) == SubSeq([i \in 1 .. n |-> 0], 1, n)

Raised(kind, r) == [err |-> kind, out |-> << >>, rng |-> r]

\* A step that reads the slot it writes (still zero) instead of the previous one.
MarkovStepBad(st, t, alpha) ==
    [series |-> [st.series EXCEPT ![t + 1] =
                     Add(Mul(alpha, st.series[t + 1]), Randn(st.rng))],
     rng |-> RngNext(st.rng)]

\* Line 16, one iteration: series[t] = alpha * series[t-1] + np.random.randn()
MarkovStep(st, t, alpha) ==
    [series |-> [st.series EXCEPT ![t + 1] =
                     Add(Mul(alpha, st.series[t]), Randn(st.rng))],
     rng |-> RngNext(st.rng)]

\* Lines 15-16, for t in range(lo, hi): the steps lo, lo + 1, ..., hi - 1 in
\* order.  The range is split in halves, and the state is inspected on entry
\* (it always holds a stream state), so that TLC has finished the first half
\* before it enters the second and the nesting of its evaluation stays
\* logarithmic in the length of the range.
RECURSIVE MarkovLoop(_, _, _, _)
MarkovLoop(st, lo, hi, alpha) ==
    IF hi <= lo \/ st.rng \notin RngStates THEN st
    ELSE IF hi = lo + 1 THEN MarkovStep(st, lo, alpha)
    ELSE LET mid == (lo + hi) \div 2
         IN  MarkovLoop(MarkovLoop(st, lo, mid, alpha), mid, hi, alpha)

\* Lines 12-13: series = np.zeros(n); series[0] = np.random.randn()
FirstDraw(n, r) ==
    [series |-> [Zeros(n) EXCEPT ![1] = Randn(r)], rng |-> RngNext(r)]

\* Line 18: return series
Returned(st) == [err |-> NoError, out |-> st.series, rng |-> st.rng]

\* Lines 12-18, with the stream in state r.
Generated(n, alpha, r) ==
    IF n < 0 THEN Raised("ValueError", r)                \* np.zeros(-1)
    ELSE IF n = 0 THEN Raised("IndexError", RngNext(r))  \* series[0] = <a draw>
    ELSE Returned(MarkovLoop(FirstDraw(n, r), 1, n, alpha))

\* Lines 10-11: if random_seed is not None: np.random.seed(random_seed)
Seeded(seed, r) == IF seed # None THEN SeedState(seed[1]) ELSE r

\* The generator with line 11 dropped: the seed is checked, the stream is not reset.
generate_no_reseed(n, alpha, seed, r) ==
    IF seed # None /\ ~SeedOk(seed[1]) THEN Raised("ValueError", r)
    ELSE Generated(n, alpha, r)

\* generate_markov_chain(num_points, alpha, random_seed) called with the stream
\* in state r: the exception raised if any, the series returned, and the state
\* of the stream afterwards.
generate_markov_chain(n, alpha, seed, r) ==
    IF seed # None /\ ~SeedOk(seed[1]) THEN Raised("ValueError", r)
    ELSE Generated(n, alpha, Seeded(seed, r))

-----------------------------------------------------------------------------
(* moving_average *)

\* w entries, each x.
Full(w, x) == [i \in 1 .. w |-> x]

\* np.ones(window_size) / window_size
Window(w) == Full(w, Div(1, FromInt(w)))

\* The sum over j = lo..hi of a[k + j - 1] * v[Len(v) - j + 1]: the window v,
\* reversed, laid over a from position k.
RECURSIVE Dot(_, _, _, _, _)
Dot(a, v, k, lo, hi) ==
    IF lo > hi THEN 0
    ELSE IF lo = hi THEN Mul(a[k + lo - 1], v[Len(v) - lo + 1])
    ELSE LET mid == (lo + hi) \div 2
         IN  Add(Dot(a, v, k, lo, mid), Dot(a, v, k, mid + 1, hi))

\* np.convolve(a, v, mode='valid'): the longer argument is slid over the other.
Convolve(a, v) ==
    LET swap == Len(v) > Len(a)
        aa == IF swap THEN v ELSE a
        vv == IF swap THEN a ELSE v
    IN  IF Len(aa) = 0 THEN [err |-> "ValueError", out |-> << >>]
        ELSE IF Len(vv) = 0 THEN [err |-> "ValueError", out |-> << >>]
        ELSE [err |-> NoError,
              out |-> [k \in 1 .. (Len(aa) - Len(vv) + 1) |-> Dot(aa, vv, k, 1, Len(vv))]]

\* A filter that pads its output to the length of the series, as mode='same' does.
moving_average_same(series, w) ==
    IF w < 0 THEN [err |-> "ValueError", out |-> << >>]
    ELSE LET c == Convolve(series, Window(w))
         IN  IF c.err = NoError /\ w <= Len(series)
             THEN [c EXCEPT !.out = [k \in 1 .. Len(series) |->
                                       IF k <= Len(c.out) THEN c.out[k] ELSE 0]]
             ELSE c

\* A filter whose kernel is not divided by the window size.
moving_average_sum(series, w) ==
    IF w < 0 THEN [err |-> "ValueError", out |-> << >>]
    ELSE Convolve(series, Full(w, 1))

moving_average(series, w) ==
    IF w < 0 THEN [err |-> "ValueError", out |-> << >>]   \* np.ones(-1)
    ELSE Convolve(series, Window(w))

-----------------------------------------------------------------------------
(* The coefficients: a_values, line 33 *)

NoFrac == 10

\* A Python numeric literal: sign, integer part and one decimal digit (NoFrac for
\* an int literal).
Lit(s, w, f) == [sign |-> s, whole |-> w, frac |-> f]

a_values ==
    << Lit(1, 0, NoFrac), Lit(1, 0, 2), Lit(1, 0, 5), Lit(1, 0, 8),
       Lit(1, 1, 0), Lit(-1, 0, 5), Lit(-1, 0, 8), Lit(1, 1, 2) >>

\* The number a literal denotes.
Value(a) ==
    LET tenths == 10 * a.whole + (IF a.frac = NoFrac THEN 0 ELSE a.frac)
    IN  Div(FromInt(a.sign * tenths), FromInt(10))

Digit == <<"0", "1", "2", "3", "4", "5", "6", "7", "8", "9">>

\* str(a) without the sign: every float of the list prints as 0.5 and -0.5 do.
StrUnsigned(a) ==
    Digit[a.whole + 1] \o (IF a.frac = NoFrac THEN "" ELSE "." \o Digit[a.frac + 1])

\* str(a): "0" for the int 0, "0.2", "1.0", "-0.5".
Str(a) == (IF a.sign < 0 THEN "-" ELSE "") \o StrUnsigned(a)

\* A label that drops the sign.
KeyUnsigned(a) == "alpha = " \o StrUnsigned(a)

\* f"alpha = {a}", the key of line 37.
Key(a) == "alpha = " \o Str(a)

-----------------------------------------------------------------------------
(* Direct calls of the two kernel functions *)

MaxLen == 3

SeedSpan == 1

DefaultSeed == 42

\* Seeds a caller passes: none, one numpy rejects, and accepted ones.
Seeds == {None, Some(-1)} \cup {Some(s) : s \in DefaultSeed .. (DefaultSeed + SeedSpan)}

Lens == (-1) .. MaxLen

Alphas == {Value(a_values[i]) : i \in {1, 3, 7, 8}}

TestValues == {1, 3}

TestSeries == UNION {[1 .. n -> TestValues] : n \in 0 .. MaxLen}

Windows == (-1) .. (MaxLen + 2)

NoCall ==
    [fn |-> "none", n |-> 0, alpha |-> 0, seed |-> None, before |-> 0,
     s |-> << >>, w |-> 0, err |-> NoError, out |-> << >>]

\* A caller runs generate_markov_chain(n, alpha, seed).
Generate(n, alpha, seed) ==
    \E g \in {generate_markov_chain(n, alpha, seed, rng)} :
        /\ rng' = g.rng
        /\ call' = [NoCall EXCEPT !.fn = "generate", !.n = n, !.alpha = alpha,
                                  !.seed = seed, !.before = rng,
                                  !.err = g.err, !.out = g.out]
        /\ UNCHANGED appVars

\* A caller runs moving_average(s, w).
Smooth(s, w) ==
    \E m \in {moving_average(s, w)} :
        /\ call' = [NoCall EXCEPT !.fn = "smooth", !.s = s, !.w = w,
                                  !.err = m.err, !.out = m.out]
        /\ UNCHANGED <<rng, appVars>>

\* A process that imports the two functions and has not run the script: the
\* script's globals are unbound (0 and empty here).  numpy's stream is seeded
\* from the operating system, so it starts anywhere.
InitKernel ==
    /\ rng \in RngStates
    /\ num_points = 0
    /\ window_size = 0
    /\ num_lags = 0
    /\ random_seed = 0
    /\ pacf_checks = TRUE
    /\ series_dict = << >>
    /\ dfs = << >>
    /\ analysis_results = << >>
    /\ results = << >>
    /\ smoothed_series = << >>
    /\ plots = << >>
    /\ error = NoErr
    /\ call = NoCall

NextKernel ==
    \/ \E n \in Lens, alpha \in Alphas, seed \in Seeds : Generate(n, alpha, seed)
    \/ \E s \in TestSeries, w \in Windows : Smooth(s, w)

SpecKernel == InitKernel /\ [][NextKernel]_vars

-----------------------------------------------------------------------------
(* The script, lines 29-112: one run from its widgets' values *)

\* A Python dict: its items in insertion order.  d[k] = v replaces the value of a
\* key already present and appends a new key at the end.
DictSet(d, k, v) ==
    IF \E i \in 1 .. Len(d) : d[i].key = k
    THEN [i \in 1 .. Len(d) |-> IF d[i].key = k THEN [key |-> k, val |-> v] ELSE d[i]]
    ELSE Append(d, [key |-> k, val |-> v])

DictKeys(d) == [i \in 1 .. Len(d) |-> d[i].key]

\* d[k]
DictGet(d, k) == d[CHOOSE i \in 1 .. Len(d) : d[i].key = k].val

\* range(a, b)
Range(a, b) == [i \in 1 .. (IF b > a THEN b - a ELSE 0) |-> a + i - 1]

\* One item of the comprehension of line 37, g being what the generator did.
\* An exception leaves series_dict unbound.
SeriesItem(acc, a, g) ==
    IF g.err # NoError
    THEN [err |-> Err(g.err, 37), dict |-> << >>, rng |-> g.rng]
    ELSE [err |-> NoErr, dict |-> DictSet(acc.dict, Key(a), g.out), rng |-> g.rng]

\* Line 37 with the seed applied once, before the first coefficient only.
RECURSIVE SeriesDictSeedOnce(_, _, _, _)
SeriesDictSeedOnce(i, acc, n, seed) ==
    IF i > Len(a_values) \/ acc.err # NoErr THEN acc
    ELSE SeriesDictSeedOnce(i + 1,
             SeriesItem(acc, a_values[i],
                        generate_markov_chain(n, Value(a_values[i]),
                                              IF i = 1 THEN Some(seed) ELSE None,
                                              acc.rng)),
             n, seed)

\* Line 37: {f"alpha = {a}": generate_markov_chain(num_points, a, random_seed)
\* for a in a_values}, from coefficient i on.
RECURSIVE SeriesDict(_, _, _, _)
SeriesDict(i, acc, n, seed) ==
    IF i > Len(a_values) \/ acc.err # NoErr THEN acc
    ELSE SeriesDict(i + 1,
             SeriesItem(acc, a_values[i],
                        generate_markov_chain(n, Value(a_values[i]), Some(seed),
                                              acc.rng)),
             n, seed)

\* Lines 40-46: one DataFrame per key.
RECURSIVE Frames(_, _, _)
Frames(i, sd, d) ==
    IF i > Len(sd) THEN d
    ELSE Frames(i + 1, sd,
                DictSet(d, sd[i].key, [Value |-> sd[i].val, index_name |-> "Index"]))

\* s[lo] + ... + s[hi]
RECURSIVE SumSeq(_, _, _)
SumSeq(s, lo, hi) ==
    IF lo > hi THEN 0
    ELSE IF lo = hi THEN s[lo]
    ELSE LET mid == (lo + hi) \div 2
         IN  Add(SumSeq(s, lo, mid), SumSeq(s, mid + 1, hi))

\* np.mean
Mean(s) == Div(SumSeq(s, 1, Len(s)), FromInt(Len(s)))

\* The squared deviations of s from m.
SquaredDeviations(s, m) == [i \in 1 .. Len(s) |-> Mul(Sub(s[i], m), Sub(s[i], m))]

\* np.var: the mean of the squared deviations from the mean (divide by N)
Var(s) == Mean(SquaredDeviations(s, Mean(s)))

\* A value the script stores: a number, or the result of a statsmodels / scipy
\* call, of which the script uses the length alone (lines 85-89).
Scalar(x) == [stat |-> "scalar", len |-> 1, x |-> x]

Library(name, len) == [stat |-> name, len |-> len, x |-> 0]

\* sm.tsa.pacf(series, nlags): statsmodels from 0.12 on raises ValueError unless
\* nlags < nobs // 2; earlier releases make no such check.
PacfRaises(n, nlags, checks) == checks /\ nlags >= n \div 2

\* sm.tsa.acf(series, nlags) returns the first nlags + 1 autocorrelations of the
\* nobs it has.
AcfLen(n, nlags) == IF nlags + 1 <= n THEN nlags + 1 ELSE n

\* sm.stats.acorr_ljungbox(series, lags=[nlags]) divides the nlags squared
\* autocorrelations by nobs - 1 .. nobs - nlags: acf has no more than nobs - 1 of
\* them to give, and the division raises ValueError on the shapes.
LjungBoxRaises(n, nlags) == nlags >= n

\* Lines 51-61 for one series: the entries of `results` in the order they are
\* stored, and the exception that cut them short.
Analyze(series, nlags, checks) ==
    LET n  == Len(series)
        r1 == DictSet(<< >>, "mean_value", Scalar(Mean(series)))
        r2 == DictSet(r1, "variance_value", Scalar(Var(series)))
        r3 == DictSet(r2, "auto_corr", Library("acf", AcfLen(n, nlags)))
        r4 == DictSet(r3, "partial_auto_corr", Library("pacf", nlags + 1))
        r5 == DictSet(r4, "is_stationary", Library("adfuller", 1))
        r6 == DictSet(r5, "adf_p_value", Library("adfuller", 1))
        r7 == DictSet(r6, "kurtosis_value", Library("kurtosis", 1))
        r8 == DictSet(r7, "skewness_value", Library("skew", 1))
        r9 == DictSet(r8, "ljung_box_test", Library("acorr_ljungbox", 1))
    IN  IF PacfRaises(n, nlags, checks)
        THEN [err |-> Err("ValueError", 55), results |-> r3]
        ELSE IF LjungBoxRaises(n, nlags)
        THEN [err |-> Err("ValueError", 61), results |-> r8]
        ELSE [err |-> NoErr, results |-> r9]

\* One turn of the loop of lines 50-63, a being what lines 51-61 did: line 63
\* stores the results unless an exception came first.
AnalysisItem(acc, key, a) ==
    IF a.err # NoErr
    THEN [err |-> a.err, analysis_results |-> acc.analysis_results,
          results |-> a.results]
    ELSE [err |-> NoErr,
          analysis_results |-> DictSet(acc.analysis_results, key, a.results),
          results |-> a.results]

\* Lines 49-63, from item i of series_dict on.
RECURSIVE AnalysisLoop(_, _, _, _, _)
AnalysisLoop(i, sd, acc, nlags, checks) ==
    IF i > Len(sd) \/ acc.err # NoErr THEN acc
    ELSE AnalysisLoop(i + 1, sd,
                      AnalysisItem(acc, sd[i].key, Analyze(sd[i].val, nlags, checks)),
                      nlags, checks)

\* The figure of lines 72-79: the series against range(num_points) and the
\* smoothed series y against range(window_size - 1, num_points).
Figure(item, y, n, w) ==
    [key |-> item.key, x0 |-> Range(0, n), y0 |-> item.val,
     x |-> Range(w - 1, n), y |-> y]

\* One turn of the loop of lines 66-112, m being what moving_average did (line
\* 68) and r the results stored for the key (line 82).  ax.plot raises
\* ValueError when its x and y differ in length (line 74), and so does
\* pd.DataFrame on columns of different lengths (line 85).
PlotItem(acc, item, m, r, n, w, nlags) ==
    IF m.err # NoError THEN [acc EXCEPT !.err = Err(m.err, 68)]
    ELSE IF Len(Range(w - 1, n)) # Len(m.out)
    THEN [acc EXCEPT !.err = Err("ValueError", 74), !.smoothed_series = m.out]
    ELSE [err |-> IF DictGet(r, "auto_corr").len = nlags + 1
                     /\ DictGet(r, "partial_auto_corr").len = nlags + 1
                  THEN NoErr ELSE Err("ValueError", 85),
          results |-> r,
          smoothed_series |-> m.out,
          plots |-> Append(acc.plots, Figure(item, m.out, n, w))]

\* Lines 66-112, from item i of series_dict on.
RECURSIVE PlotLoop(_, _, _, _, _, _, _)
PlotLoop(i, sd, ar, acc, n, w, nlags) ==
    IF i > Len(sd) \/ acc.err # NoErr THEN acc
    ELSE PlotLoop(i + 1, sd, ar,
                  PlotItem(acc, sd[i], moving_average(sd[i].val, w),
                           DictGet(ar, sd[i].key), n, w, nlags),
                  n, w, nlags)

\* The script's globals when it ends or is cut short: s from line 37, a from
\* lines 49-63, p from lines 66-112.
Globals(s, a, p) ==
    [rng |-> s.rng, series_dict |-> s.dict, dfs |-> Frames(1, s.dict, << >>),
     analysis_results |-> a.analysis_results, results |-> p.results,
     smoothed_series |-> p.smoothed_series, plots |-> p.plots, error |-> p.err]

\* Lines 66-112 after lines 49-63; an exception so far is passed on.
ScriptPlots(s, a, n, w, nlags) ==
    Globals(s, a,
            PlotLoop(1, s.dict, a.analysis_results,
                     [err |-> a.err, results |-> a.results,
                      smoothed_series |-> << >>, plots |-> << >>],
                     n, w, nlags))

\* Lines 40-112 after line 37; an exception so far is passed on.
ScriptAnalysis(s, n, w, nlags, checks) ==
    ScriptPlots(s,
                AnalysisLoop(1, s.dict,
                             [err |-> s.err, analysis_results |-> << >>,
                              results |-> << >>],
                             nlags, checks),
                n, w, nlags)

\* The whole script for the widget values (n, w, nlags, seed), started with the
\* stream in state r.
Script(n, w, nlags, seed, checks, r) ==
    ScriptAnalysis(SeriesDict(1, [err |-> NoErr, dict |-> << >>, rng |-> r], n, seed),
                   n, w, nlags, checks)

-----------------------------------------------------------------------------
(* The Streamlit session: every change of a widget runs the script again *)

MinNumPoints == 10

MaxNumPoints == 1000

DefaultNumPoints == 100

MinWindowSize == 1

MaxWindowSize == 50

DefaultWindowSize == 5

MinNumLags == 1

MaxNumLags == 35

DefaultNumLags == 10

InputSpan == 0

\* The values the sliders are moved to: the default and the ends of the window
\* and lag ranges, the default and the low end of the series sizes (where the
\* three ranges overlap).
NumPointsInputs ==
    (MinNumPoints .. (MinNumPoints + InputSpan)) \cup {DefaultNumPoints}

WindowSizeInputs == {MinWindowSize, DefaultWindowSize, MaxWindowSize}

NumLagsInputs == {MinNumLags, DefaultNumLags, MaxNumLags}

SeedInputs == {-1} \cup (DefaultSeed .. (DefaultSeed + SeedSpan))

\* The script runs with the widgets at (n, w, nlags, seed).
Run(n, w, nlags, seed) ==
    \E g \in {Script(n, w, nlags, seed, pacf_checks, rng)} :
        /\ num_points' = n
        /\ window_size' = w
        /\ num_lags' = nlags
        /\ random_seed' = seed
        /\ rng' = g.rng
        /\ series_dict' = g.series_dict
        /\ dfs' = g.dfs
        /\ analysis_results' = g.analysis_results
        /\ results' = g.results
        /\ smoothed_series' = g.smoothed_series
        /\ plots' = g.plots
        /\ error' = g.error
        /\ UNCHANGED <<pacf_checks, call>>

SetNumPoints(v) == v # num_points /\ Run(v, window_size, num_lags, random_seed)

SetWindowSize(v) == v # window_size /\ Run(num_points, v, num_lags, random_seed)

SetNumLags(v) == v # num_lags /\ Run(num_points, window_size, v, random_seed)

SetRandomSeed(v) == v # random_seed /\ Run(num_points, window_size, num_lags, v)

\* The page after its first run, with every widget at its default.
Init ==
    \E r \in RngStates, checks \in BOOLEAN :
        \E g \in {Script(DefaultNumPoints, DefaultWindowSize, DefaultNumLags,
                         DefaultSeed, checks, r)} :
            /\ num_points = DefaultNumPoints
            /\ window_size = DefaultWindowSize
            /\ num_lags = DefaultNumLags
            /\ random_seed = DefaultSeed
            /\ pacf_checks = checks
            /\ rng = g.rng
            /\ series_dict = g.series_dict
            /\ dfs = g.dfs
            /\ analysis_results = g.analysis_results
            /\ results = g.results
            /\ smoothed_series = g.smoothed_series
            /\ plots = g.plots
            /\ error = g.error
            /\ call = NoCall

Next ==
    \/ \E v \in NumPointsInputs : SetNumPoints(v)
    \/ \E v \in WindowSizeInputs : SetWindowSize(v)
    \/ \E v \in NumLagsInputs : SetNumLags(v)
    \/ \E v \in SeedInputs : SetRandomSeed(v)

Spec == Init /\ [][Next]_vars

-----------------------------------------------------------------------------
(* Properties of the two functions, checked under SpecKernel *)

\* The stream k draws after state r, and the k-th draw (from 0) taken from r.
RECURSIVE RngAfter(_, _)
RngAfter(r, k) == IF k = 0 THEN r ELSE RngNext(RngAfter(r, k - 1))

Draw(r, k) == Randn(RngAfter(r, k))

ValidSeed(seed) == seed = None \/ SeedOk(seed[1])

\* C1: a call of generate_markov_chain with a seed gives the same outcome (the
\* same series, or the same exception) from every state earlier calls can have
\* left the random stream in.
C1_SeededGenerateIgnoresStream ==
    (call.fn = "generate" /\ call.seed # None) =>
        \A r \in RngStates :
            /\ generate_markov_chain(call.n, call.alpha, call.seed, r).err = call.err
            /\ generate_markov_chain(call.n, call.alpha, call.seed, r).out = call.out

\* A seeded call that returned a series of two values or more, made when the
\* stream was not already where the seed puts it.
C1_SeededAfterOtherDraws ==
    /\ call.fn = "generate"
    /\ call.seed # None
    /\ call.err = NoError
    /\ call.n >= 2
    /\ call.before # SeedState(call.seed[1])

\* C2: moving_average(s, w) with w > len(s) raises an exception and returns no
\* smoothed series.
C2_LongWindowRaises ==
    (call.fn = "smooth" /\ call.w > Len(call.s)) =>
        (call.err # NoError /\ call.out = << >>)

\* A window longer than a non-empty series: the call returns w - len(s) + 1
\* values and raises nothing.
C2_LongWindowReturns ==
    /\ call.fn = "smooth"
    /\ Len(call.s) >= 1
    /\ call.w > Len(call.s)
    /\ call.err = NoError
    /\ Len(call.out) = call.w - Len(call.s) + 1

\* C5: generate_markov_chain(n, a, s) with n >= 1 returns n values (it returns
\* whenever the seed is one numpy accepts), and moving_average(s, w) with
\* 1 <= w <= len(s) returns len(s) - w + 1 values.
C5_LengthLaws ==
    /\ (call.fn = "generate" /\ call.n >= 1 /\ ValidSeed(call.seed)) =>
           call.err = NoError
    /\ (call.fn = "generate" /\ call.n >= 1 /\ call.err = NoError) =>
           Len(call.out) = call.n
    /\ (call.fn = "smooth" /\ 1 <= call.w /\ call.w <= Len(call.s)) =>
           (call.err = NoError /\ Len(call.out) = Len(call.s) - call.w + 1)

\* A window of two or more, shorter than the series it smooths.
C5_ShorterOutput ==
    /\ call.fn = "smooth"
    /\ call.w >= 2
    /\ call.w < Len(call.s)
    /\ call.err = NoError
    /\ Len(call.out) >= 2

\* C6: a call that returns has taken exactly n draws e_0 .. e_(n-1) from the
\* stream, in order, starting where the seed (if any) put it; series[0] = e_0
\* and series[t] = alpha * series[t-1] + e_t for t = 1 .. n-1; with alpha = 0
\* the series is the draws themselves.
C6_Recurrence ==
    (call.fn = "generate" /\ call.err = NoError) =>
        /\ Len(call.out) = call.n
        /\ call.out[1] = Draw(Seeded(call.seed, call.before), 0)
        /\ \A t \in 2 .. call.n :
               call.out[t] = Add(Mul(call.alpha, call.out[t - 1]),
                                 Draw(Seeded(call.seed, call.before), t - 1))
        /\ rng = RngAfter(Seeded(call.seed, call.before), call.n)
        /\ call.alpha = 0 =>
               call.out = [t \in 1 .. call.n |->
                              Draw(Seeded(call.seed, call.before), t - 1)]

\* An unseeded call with a non-zero coefficient that returned three values or
\* more.
C6_FeedbackUsed ==
    /\ call.fn = "generate"
    /\ call.seed = None
    /\ call.alpha # 0
    /\ call.err = NoError
    /\ call.n >= 3

\* C7: for 1 <= w <= len(s), value i of moving_average(s, w) is the sum of
\* s[i .. i+w-1] divided by w; with w = 1 the output is s.
C7_UnweightedAverage ==
    (call.fn = "smooth" /\ 1 <= call.w /\ call.w <= Len(call.s)) =>
        /\ call.err = NoError
        /\ DOMAIN call.out = 1 .. (Len(call.s) - call.w + 1)
        /\ \A i \in DOMAIN call.out :
               call.out[i] = Div(SumSeq(call.s, i, i + call.w - 1), FromInt(call.w))
        /\ call.w = 1 => call.out = call.s

\* A window of two slid over a series whose averages differ.
C7_AveragesDiffer ==
    /\ call.fn = "smooth"
    /\ call.w = 2
    /\ call.err = NoError
    /\ Len(call.out) = 2
    /\ call.out[1] # call.out[2]

-----------------------------------------------------------------------------
(* Properties of the script, checked under Spec *)

\* The labels of the coefficients, in the order of a_values.
Labels == [i \in 1 .. Len(a_values) |-> Key(a_values[i])]

\* The lines that build series_dict and analysis_results.
BuildLines == 37 .. 63

\* C3: whenever the script has reached the calls of the analysis and the filter,
\* the window is no longer than the series and the lags are fewer than its
\* values.
C3_InputsWithinSeries ==
    \A i \in DOMAIN series_dict :
        /\ window_size <= Len(series_dict[i].val)
        /\ num_lags < Len(series_dict[i].val)

\* moving_average has been called, and has returned, with a window longer than
\* the series.
C3_FilterCalledWithLongWindow ==
    /\ window_size > num_points
    /\ series_dict # << >>
    /\ Len(smoothed_series) = window_size - num_points + 1

\* C4: when the lags are not fewer than the values of the series, the analysis
\* raises ValueError before it has computed any statistic, and stores nothing.
C4_LagsRejectedFirst ==
    (series_dict # << >> /\ num_lags >= num_points) =>
        /\ error.kind = "ValueError"
        /\ error.line \in 50 .. 63
        /\ results = << >>
        /\ analysis_results = << >>

\* The exception comes from pacf (line 55), after the mean, the variance and the
\* autocorrelations of the first series have been computed.
C4_StatisticsBeforeFailure ==
    /\ num_lags >= num_points
    /\ error = Err("ValueError", 55)
    /\ DictKeys(results) = <<"mean_value", "variance_value", "auto_corr">>

\* C8: series_dict, dfs and analysis_results hold one entry per coefficient, keyed
\* by the coefficients' labels in the order of a_values, entry i being the
\* series of coefficient i; an exception in the analysis leaves analysis_results
\* a prefix of that order.
C8_OneEntryPerCoefficientInOrder ==
    /\ series_dict # << >> =>
           /\ DictKeys(series_dict) = Labels
           /\ DictKeys(dfs) = Labels
           /\ Cardinality({Labels[i] : i \in DOMAIN Labels}) = Len(a_values)
           /\ \A i \in DOMAIN a_values :
                  series_dict[i].val =
                      generate_markov_chain(num_points, Value(a_values[i]),
                                            Some(random_seed), 0).out
    /\ Len(analysis_results) <= Len(series_dict)
    /\ \A i \in DOMAIN analysis_results : analysis_results[i].key = Labels[i]
    /\ error.line \notin BuildLines => DictKeys(analysis_results) = Labels

\* A rerun (the series size is not the default) that ended without exception.
C8_CompleteRun ==
    /\ num_points # DefaultNumPoints
    /\ error = NoErr
    /\ Len(series_dict) = Len(a_values)
    /\ Len(analysis_results) = Len(a_values)

\* The series stored for coefficient i.
SeriesOf(i) == DictGet(series_dict, Key(a_values[i]))

\* series[t] - a * series[t-1] for coefficient i (Python's t, from 1).
Innovation(i, t) ==
    Sub(SeriesOf(i)[t + 1], Mul(Value(a_values[i]), SeriesOf(i)[t]))

\* C9: within one run any two coefficients' series are built from the same
\* innovations: equal first values, and equal series[t] - a * series[t-1] for
\* every t >= 1.
C9_SameInnovations ==
    series_dict # << >> =>
        \A i, j \in DOMAIN a_values :
            /\ SeriesOf(i)[1] = SeriesOf(j)[1]
            /\ \A t \in 1 .. (num_points - 1) : Innovation(i, t) = Innovation(j, t)

\* A rerun with another seed whose series differ between coefficients although
\* their innovations agree.
C9_SeriesDiffer ==
    /\ random_seed # DefaultSeed
    /\ Len(series_dict) = Len(a_values)
    /\ error = NoErr
    /\ SeriesOf(1) # SeriesOf(2)
    /\ SeriesOf(2) # SeriesOf(8)

\* C10: once the analysis is complete, the smoothed series of the first
\* coefficient at least is drawn, and every smoothed series drawn is drawn
\* against window_size - 1 .. num_points - 1 with one index per value.
C10_SmoothedAligned ==
    (series_dict # << >> /\ Len(analysis_results) = Len(series_dict)) =>
        /\ Len(plots) >= 1
        /\ \A i \in DOMAIN plots :
               /\ plots[i].x = Range(window_size - 1, num_points)
               /\ Len(plots[i].x) = Len(plots[i].y)

\* The window is longer than the series: there is no index to draw against, the
\* filter returned values all the same, and ax.plot raised at line 74.
C10_NothingToDrawAgainst ==
    /\ window_size > num_points
    /\ Range(window_size - 1, num_points) = << >>
    /\ Len(smoothed_series) >= 1
    /\ error = Err("ValueError", 74)
    /\ plots = << >>

====
